---- MODULE Spec2Model ----
(***************************************************************************)
(* Model of music_assistant_client.client.MusicAssistantClient: the        *)
(* command/result correlation table (_result_futures), the read loop of    *)
(* start_listening, the initial-state fetch task, connect/disconnect and   *)
(* the event dispatch of _handle_event.                                    *)
(*                                                                         *)
(* Every coroutine is a process whose steps are the code between two       *)
(* suspension points (an await on the transport or on a future); the       *)
(* asyncio event loop interleaves those steps.                             *)
(***************************************************************************)
EXTENDS Integers, Sequences, FiniteSets, TLC

\* ---------------------------------------------------------------- bounds
\* send_command / send_command_no_wait calls of one run: the application's
\* and the fetch task's
MaxCalls == 2
\* event frames the server puts on the connection
MaxEvents == 2
\* runs of start_listening
MaxListens == 1
\* subscribe() calls of one run
MaxSubs == 3
\* provider instances of a mapping get_provider reads
MaxProviders == 3

\* ------------------------------------------------------------- constants
API_SCHEMA_VERSION == 25

\* Python's None where the other values are strings
None == "None"
\* require_schema=None
NoSchema == -1
\* server_info=None
NoServerInfo == [schema_version |-> 0, min_supported_schema_version |-> 0]
\* an event_filter or id_filter of None, and one that is a tuple
Unset == [set |-> FALSE, items |-> {}]
Filter(S) == [set |-> TRUE, items |-> S]

\* the callers, in the order they call
Calls == 1..MaxCalls

\* what connection.connect() can return: a compatible server and one whose
\* min_supported_schema_version the client is too old for
ServerInfos ==
    { [schema_version |-> API_SCHEMA_VERSION,
       min_supported_schema_version |-> API_SCHEMA_VERSION - 1],
      [schema_version |-> API_SCHEMA_VERSION + 1,
       min_supported_schema_version |-> API_SCHEMA_VERSION + 1] }

\* the require_schema arguments the callers pass
RequireSchemas ==
    {NoSchema, API_SCHEMA_VERSION, API_SCHEMA_VERSION + 1, API_SCHEMA_VERSION + 2}

\* items of a result or event payload (a provider instance, a manifest,
\* a player, a queue): the dict keys the client reads
ItemA == [id |-> "a", domain |-> "d1"]
ItemB == [id |-> "b", domain |-> "d2"]
Payloads == { <<ItemA>>, <<ItemB, ItemA>> }

\* a faulty error map: every code the server sends has an entry
ERROR_MAP_COMPLETE ==
    (1 :> "ProviderUnavailableError") @@ (2 :> "MediaNotFoundError")
       @@ (999 :> "MusicAssistantError")

\* the error map: error code -> typed error; UnknownCode has no entry
ERROR_MAP == (1 :> "ProviderUnavailableError") @@ (2 :> "MediaNotFoundError")
UnknownCode == 999

EventTypes == {"PROVIDERS_UPDATED", "PLAYER_ADDED", "PLAYER_REMOVED"}
PlayerEvents == {"PLAYER_ADDED", "PLAYER_REMOVED", "PLAYER_UPDATED"}

VARIABLES
    conn,               \* the transport: "closed", "open", "closing"
    inbox,              \* frames receive_message() will yield, in arrival order
    sent,               \* message ids of the commands handed to the transport
    answered,           \* message ids the server has sent a result for
    events,             \* number of event frames the server has emitted
    loop,               \* self._loop is set
    server_info,        \* self._server_info
    stop_called,        \* self._stop_called
    result_futures,     \* self._result_futures: message_id -> future
    next_id,            \* the next uuid4 message id
    calls,              \* the send_command coroutines, by slot
    fetch,              \* the fetch_initial_state task
    init_ready,         \* the init_ready event is set
    pc,                 \* where the application and start_listening are
    listener_exc,       \* what start_listening raised
    providers,          \* self._providers
    provider_manifests, \* self._provider_manifests
    player_queues,      \* PlayerQueues' cache
    players,            \* Players._players
    subscribers,        \* self._subscribers
    scheduled,          \* callbacks handed to the loop, not yet run
    handles,            \* the unsubscribe handles subscribe() has returned
    invoked,            \* the callback invocations made so far, in order
    handled,            \* the events _handle_event was called with, in order
    listens,            \* number of start_listening() calls
    peer,               \* the ServerInfo the transport's last connect() returned
    app_connect,        \* what the application's last connect() raised, or
                        \* "already connected" when it returned at once
    lookup              \* the last get_provider() call: the mapping it read,
                        \* its arguments and what it returned

vars == << conn, inbox, sent, answered, events, loop, server_info, stop_called,
           result_futures, next_id, calls, fetch, init_ready, pc,
           listener_exc, providers, provider_manifests, player_queues,
           players, subscribers, scheduled, handles, invoked, handled,
           listens, peer, app_connect, lookup >>

\* ------------------------------------------------------ futures, outcomes
NoOutcome == [kind |-> "none", val |-> <<>>, exc |-> "", details |-> ""]
Returned(v) == [kind |-> "returned", val |-> v, exc |-> "", details |-> ""]
Raised(e, d) == [kind |-> "raised", val |-> <<>>, exc |-> e, details |-> d]

\* loop.create_future()
\* (src remembers the frame that settled the future)
\* (seq numbers the event frames in the order the server emits them)
NoFrame == [type |-> "none", message_id |-> 0, result |-> <<>>, error_code |-> 0,
            details |-> "", event |-> "", object_id |-> "", data |-> <<>>,
            seq |-> 0]
NewFuture == [state |-> "PENDING", outcome |-> NoOutcome, src |-> NoFrame]

\* a faulty cancel: it marks a done future cancelled too
FutureCancelAlways(f) == [f EXCEPT !.state = "CANCELLED"]

\* future.cancel(): settles a pending future, leaves a done one alone
FutureCancel(f) ==
    IF f.state = "PENDING" THEN [f EXCEPT !.state = "CANCELLED"] ELSE f

\* what `await future` gives once the future is done
FutureAwait(f) ==
    IF f.state = "CANCELLED" THEN Raised("CancelledError", "") ELSE f.outcome

\* connection.connected
Connected == conn # "closed"

\* the entry of a dict without key k
DictPop(d, k) == [i \in DOMAIN d \ {k} |-> d[i]]

\* {x[key]: x for x in items}: a later item replaces an earlier one
RECURSIVE DictById(_)
DictById(items) ==
    IF items = <<>> THEN <<>>
    ELSE LET rest == DictById(SubSeq(items, 1, Len(items) - 1))
             x == items[Len(items)]
         IN  (x.id :> x) @@ rest

RECURSIVE DictByDomain(_)
DictByDomain(items) ==
    IF items = <<>> THEN <<>>
    ELSE LET rest == DictByDomain(SubSeq(items, 1, Len(items) - 1))
             x == items[Len(items)]
         IN  (x.domain :> x) @@ rest

\* ------------------------------------------------------------------ frames
SuccessResult(id, v) == [NoFrame EXCEPT !.type = "success", !.message_id = id, !.result = v]
ErrorResult(id, code, d) ==
    [NoFrame EXCEPT !.type = "error", !.message_id = id, !.error_code = code, !.details = d]
Event(e, oid, data) ==
    [NoFrame EXCEPT !.type = "event", !.event = e, !.object_id = oid, !.data = data]

\* what the server answers command id with: its result, a registered error
\* or an unregistered one (the payload and the error differ from one command
\* to the next)
ResultOf(id) == IF id % 2 = 1 THEN <<ItemA>> ELSE <<ItemB, ItemA>>
ErrorOf(id) == IF id % 2 = 1 THEN <<1, "x">> ELSE <<2, "y">>
ResultFrames(ids) ==
    { SuccessResult(id, ResultOf(id)) : id \in ids }
    \cup { ErrorResult(id, ErrorOf(id)[1], ErrorOf(id)[2]) : id \in ids }
    \cup { ErrorResult(id, UnknownCode, "z") : id \in ids }

ProviderEvents == { Event("PROVIDERS_UPDATED", None, v) : v \in Payloads }

EventFrames ==
    ProviderEvents
    \cup { Event("PLAYER_ADDED", "a", <<ItemA>>), Event("PLAYER_ADDED", "b", <<ItemB>>) }

\* ------------------------------------------------------------ event router
\* the subscription Players.__init__ registers
PlayersSubscription ==
    [sid |-> 0, cb_func |-> "Players._handle_event",
     event_filter |-> Filter(PlayerEvents), id_filter |-> Unset,
     coroutine |-> FALSE]

\* the forms a filter argument of subscribe() takes: None, a single value,
\* a tuple of values
NoFilter == [form |-> "none", val |-> "", items |-> {}]
One(x) == [form |-> "single", val |-> x, items |-> {}]
Several(S) == [form |-> "tuple", val |-> "", items |-> S]

\* the callbacks an application registers: a plain function and a coroutine
\* function
Callbacks == {"on_event", "on_event_async"}
iscoroutinefunction(cb) == cb = "on_event_async"

\* the subscribe() calls an application makes
SubscribeArgs ==
    { << "on_event", NoFilter, NoFilter >>,
      << "on_event_async", One("PLAYER_ADDED"), One("a") >> }

\* a faulty normalisation: a single value is taken for no filter
AsFilterLoose(arg) == IF arg.form = "tuple" THEN Filter(arg.items) ELSE Unset

\* subscribe(): a single EventType or id becomes a one-element tuple
AsFilter(arg) ==
    IF arg.form = "none" THEN Unset
    ELSE IF arg.form = "single" THEN Filter({arg.val})
    ELSE Filter(arg.items)

\* subscribe(): the listener appended to the list (sid numbers the
\* registrations, it is no part of the tuple the code stores)
Listener(sid, cb, event_filter, id_filter) ==
    [sid |-> sid, cb_func |-> cb, event_filter |-> AsFilter(event_filter),
     id_filter |-> AsFilter(id_filter), coroutine |-> iscoroutinefunction(cb)]

\* equality of the tuples (cb_func, event_filter, id_filter)
SameListener(a, b) ==
    /\ a.cb_func = b.cb_func
    /\ a.event_filter = b.event_filter
    /\ a.id_filter = b.id_filter

\* list.remove(listener): the list without its first element equal to it
RECURSIVE ListRemove(_, _)
ListRemove(subs, listener) ==
    IF subs = <<>> THEN <<>>
    ELSE IF SameListener(Head(subs), listener) THEN Tail(subs)
    ELSE << Head(subs) >> \o ListRemove(Tail(subs), listener)

\* the two filter tests of the dispatch loop
Matches(sub, event) ==
    /\ (~sub.event_filter.set \/ event.event \in sub.event_filter.items)
    /\ (~sub.id_filter.set \/ event.object_id \in sub.id_filter.items)

\* the callbacks _handle_event hands to the loop for one event, in order
RECURSIVE Deliveries(_, _)
Deliveries(subs, event) ==
    IF subs = <<>> THEN <<>>
    ELSE (IF Matches(Head(subs), event)
          THEN << [kind |-> IF Head(subs).coroutine THEN "spawn" ELSE "call",
                   sid |-> Head(subs).sid, cb_func |-> Head(subs).cb_func,
                   event |-> event] >>
          ELSE <<>>) \o Deliveries(Tail(subs), event)

\* a faulty _handle_event: the stop flag is not tested
handle_event_stopped(event) ==
    [providers |-> IF event.event = "PROVIDERS_UPDATED"
                   THEN DictById(event.data) ELSE providers,
     scheduled |-> scheduled \o Deliveries(subscribers, event)]

\* a faulty _handle_event: the payload is merged into the mapping
handle_event_merge(event) ==
    IF stop_called
    THEN [providers |-> providers, scheduled |-> scheduled]
    ELSE [providers |-> IF event.event = "PROVIDERS_UPDATED"
                        THEN DictById(event.data) @@ providers ELSE providers,
          scheduled |-> scheduled \o Deliveries(subscribers, event)]

\* _handle_event: the caches and the loop's queue after the event
handle_event(event) ==
    IF stop_called
    THEN [providers |-> providers, scheduled |-> scheduled]
    ELSE [providers |-> IF event.event = "PROVIDERS_UPDATED"
                        THEN DictById(event.data) ELSE providers,
          scheduled |-> scheduled \o Deliveries(subscribers, event)]

\* Players._handle_event
players_handle_event(event) ==
    IF event.event \in {"PLAYER_ADDED", "PLAYER_UPDATED"}
    THEN (event.object_id :> event.data[1]) @@ players
    ELSE IF event.event = "PLAYER_REMOVED"
    THEN DictPop(players, event.object_id)
    ELSE players

\* ------------------------------------------------------ command correlator
\* future.set_result / future.set_exception on a pending future
SetResult(f, msg) ==
    [state |-> "FINISHED", outcome |-> Returned(msg.result), src |-> msg]
\* a faulty set_exception: the typed error without the server's details
SetExceptionNoDetails(f, msg) ==
    [state |-> "FINISHED",
     outcome |-> Raised(ERROR_MAP[msg.error_code], ""), src |-> msg]
SetException(f, msg) ==
    [state |-> "FINISHED",
     outcome |-> Raised(ERROR_MAP[msg.error_code], msg.details), src |-> msg]

\* a faulty lookup: the oldest entry of the table, whatever the message's id
LookupFutureOldest(table, msg) ==
    IF DOMAIN table = {} THEN 0
    ELSE CHOOSE k \in DOMAIN table : \A j \in DOMAIN table : k <= j

\* the future a result message is routed to
LookupFuture(table, msg) ==
    IF msg.message_id \in DOMAIN table THEN msg.message_id ELSE 0

\* _handle_incoming_message: the table, the caches and the loop's queue after
\* the message, and the exception that escapes ("" when none does)
handle_incoming_message(msg) ==
    LET same == [raised |-> "", table |-> result_futures,
                 providers |-> providers, scheduled |-> scheduled]
        key == LookupFuture(result_futures, msg)
    IN
    IF msg.type \in {"success", "error"}
    THEN IF key = 0 THEN same
         ELSE IF msg.type = "success"
         THEN IF result_futures[key].state # "PENDING"
              THEN [same EXCEPT !.raised = "InvalidStateError"]
              ELSE [same EXCEPT !.table =
                        [result_futures EXCEPT ![key] = SetResult(@, msg)]]
         ELSE IF msg.error_code \notin DOMAIN ERROR_MAP
              THEN [same EXCEPT !.raised = "KeyError"]
              ELSE IF result_futures[key].state # "PENDING"
              THEN [same EXCEPT !.raised = "InvalidStateError"]
              ELSE [same EXCEPT !.table =
                        [result_futures EXCEPT ![key] = SetException(@, msg)]]
    ELSE IF msg.type = "event"
    THEN LET r == handle_event(msg)
         IN  [same EXCEPT !.providers = r.providers, !.scheduled = r.scheduled]
    ELSE same

\* a faulty cancellation loop: it stops after the first entry
CancelFirst(table) ==
    [i \in DOMAIN table |->
        IF \A j \in DOMAIN table : i <= j THEN FutureCancel(table[i]) ELSE table[i]]

\* the loop of disconnect(): future.cancel() on every entry of the table
CancelAll(table) == [i \in DOMAIN table |-> FutureCancel(table[i])]

NewCall ==
    [op |-> "none", owner |-> "none", pc |-> "idle", id |-> 0,
     outcome |-> NoOutcome, cancel |-> FALSE, src |-> NoFrame,
     was_connected |-> FALSE]

Finish(call, outcome) == [call EXCEPT !.pc = "done", !.outcome = outcome]

\* a faulty precondition test: the loop only
NoLoop == ~loop

\* the precondition test of send_command
NotConnected == ~Connected \/ ~loop

\* the schema test of send_command
SchemaTooNew(require_schema) ==
    /\ require_schema # NoSchema
    /\ server_info # NoServerInfo
    /\ require_schema > server_info.schema_version

\* send_command up to its first suspension, in connection.send_message:
\* the call, the table and the id counter after it
send_command(call, table, nid, require_schema) ==
    LET c == [call EXCEPT !.op = "send_command", !.was_connected = Connected]
    IN
    IF NotConnected
    THEN [call |-> Finish(c, Raised("InvalidState", "Not connected")),
          table |-> table, next_id |-> nid]
    ELSE IF SchemaTooNew(require_schema)
    THEN [call |-> Finish(c, Raised("InvalidServerVersion", "")),
          table |-> table, next_id |-> nid]
    ELSE [call |-> [c EXCEPT !.pc = "sending", !.id = nid],
          table |-> (nid :> NewFuture) @@ table,
          next_id |-> nid + 1]

\* the precondition test of send_command_no_wait
NoWaitNotConnected == server_info = NoServerInfo

\* send_command_no_wait up to its suspension in connection.send_message
send_command_no_wait(call, nid, require_schema) ==
    LET c == [call EXCEPT !.op = "send_command_no_wait", !.was_connected = Connected]
    IN
    IF NoWaitNotConnected
    THEN [call |-> Finish(c, Raised("InvalidState", "Not connected")), next_id |-> nid]
    ELSE IF require_schema # NoSchema /\ require_schema > server_info.schema_version
    THEN [call |-> Finish(c, Raised("InvalidServerVersion", "")), next_id |-> nid]
    ELSE [call |-> [c EXCEPT !.pc = "sending", !.id = nid], next_id |-> nid + 1]

\* --------------------------------------------------------------- lifecycle
\* connection.disconnect() starts closing the socket; `connected` turns false
\* at once or only when the close has completed
CloseBegin(c) == IF c = "closed" THEN {"closed"} ELSE {"closing", "closed"}

\* fetch_state_task.cancel(): a task that never ran is cancelled as it is, a
\* suspended one gets CancelledError at its next step
\* (a faulty cancel: the task is left as it is)
TaskCancelNever(f) == f
TaskCancel(f) == IF f.state = "created" THEN [f EXCEPT !.state = "cancelled"] ELSE f
TaskCancelCalls(f, cs) ==
    IF f.state = "running" THEN [cs EXCEPT ![f.slot].cancel = TRUE] ELSE cs

\* disconnect() up to its suspension in connection.disconnect(): the flag, the
\* cancellation loop, and the transport starting to close
disconnect(p, connNow, inboxNow, tableNow) ==
    /\ stop_called' = TRUE
    /\ result_futures' = CancelAll(tableNow)
    /\ \E c \in CloseBegin(connNow) :
          /\ conn' = c
          /\ inbox' = IF c = "closed" THEN <<>> ELSE inboxNow
    /\ pc' = [pc EXCEPT ![p] = "closing"]

\* the finally block of start_listening, entered with exception exc ("" for
\* none or for a swallowed ConnectionClosed)
Teardown(connNow, inboxNow, tableNow, fetchNow, callsNow, exc) ==
    /\ fetch' = TaskCancel(fetchNow)
    /\ calls' = TaskCancelCalls(fetchNow, callsNow)
    /\ disconnect("listener", connNow, inboxNow, tableNow)
    /\ listener_exc' = exc

\* a faulty start_listening: the read loop is entered whatever the stop flag
AfterConnectAnyway(connNow, inboxNow) ==
    /\ fetch' = [state |-> "created", step |-> 0, slot |-> 0]
    /\ UNCHANGED calls
    /\ conn' = connNow
    /\ inbox' = inboxNow
    /\ pc' = [pc EXCEPT !.listener = "receiving"]
    /\ listener_exc' = ""
    /\ UNCHANGED << stop_called, result_futures >>

\* start_listening after connect() has returned: the fetch task is created
\* and the loop condition is tested for the first time
AfterConnect(connNow, inboxNow) ==
    LET f == [state |-> "created", step |-> 0, slot |-> 0]
    IN  IF stop_called
        THEN Teardown(connNow, inboxNow, result_futures, f, calls, "")
        ELSE /\ fetch' = f
             /\ UNCHANGED calls
             /\ conn' = connNow
             /\ inbox' = inboxNow
             /\ pc' = [pc EXCEPT !.listener = "receiving"]
             /\ listener_exc' = ""
             /\ UNCHANGED << stop_called, result_futures >>

\* ------------------------------------------------------------ get_provider
\* the provider instances a mapping holds: instance_id, domain, available,
\* is_streaming_provider ("a" names an instance and a domain)
InstanceIds == {"a", "b", "c"}
Domains == {"a", "d1"}
Instances ==
    [instance_id : InstanceIds, domain : Domains, available : BOOLEAN,
     is_streaming_provider : BOOLEAN]

\* the result None of get_provider
NoProvider ==
    [instance_id |-> None, domain |-> None, available |-> FALSE,
     is_streaming_provider |-> FALSE]

\* the _providers dicts: their items in insertion order, the keys distinct
ProviderDicts ==
    UNION { { d \in [1..n -> Instances] :
                \A i, j \in 1..n : i # j => d[i].instance_id # d[j].instance_id }
            : n \in 0..MaxProviders }

\* the arguments of get_provider: an instance id, a domain, a name that is
\* both, a name that is neither
LookupNames == {"a", "b", "d1", "zz"}

\* self._providers.get(key): the position of the key's item, 0 for None
DictGet(provs, key) ==
    IF \E i \in DOMAIN provs : provs[i].instance_id = key
    THEN CHOOSE i \in DOMAIN provs : provs[i].instance_id = key
    ELSE 0

\* the loop over self._providers.values(): the first instance of the domain
\* that is available or may be returned unavailable
RECURSIVE MatchDomain(_, _, _)
MatchDomain(provs, domain, return_unavailable) ==
    IF provs = <<>> THEN NoProvider
    ELSE IF Head(provs).domain # domain
    THEN MatchDomain(Tail(provs), domain, return_unavailable)
    ELSE IF return_unavailable \/ Head(provs).available
    THEN Head(provs)
    ELSE MatchDomain(Tail(provs), domain, return_unavailable)

\* a faulty get_provider: an unavailable instance always falls back to its
\* domain
get_provider_fallback(provs, provider_instance_or_domain, return_unavailable) ==
    LET i == DictGet(provs, provider_instance_or_domain)
    IN  IF i # 0
        THEN IF return_unavailable \/ provs[i].available
             THEN provs[i]
             ELSE MatchDomain(provs, provs[i].domain, return_unavailable)
        ELSE MatchDomain(provs, provider_instance_or_domain, return_unavailable)

\* get_provider
get_provider(provs, provider_instance_or_domain, return_unavailable) ==
    LET i == DictGet(provs, provider_instance_or_domain)
    IN  IF i # 0
        THEN IF return_unavailable \/ provs[i].available
             THEN provs[i]
             ELSE IF ~provs[i].is_streaming_provider
             THEN NoProvider
             ELSE MatchDomain(provs, provs[i].domain, return_unavailable)
        ELSE MatchDomain(provs, provider_instance_or_domain, return_unavailable)

\* no get_provider() call made
NoLookup ==
    [providers |-> <<>>, name |-> None, return_unavailable |-> FALSE,
     called |-> FALSE, result |-> NoProvider]

\* the client after __init__, with the given slots for the callers
Start(slots) ==
    /\ conn = "closed"
    /\ inbox = <<>>
    /\ sent = {}
    /\ answered = {}
    /\ events = 0
    /\ loop = FALSE
    /\ server_info = NoServerInfo
    /\ stop_called = FALSE
    /\ result_futures = <<>>
    /\ next_id = 1
    /\ calls = [c \in slots |-> NewCall]
    /\ fetch = [state |-> "none", step |-> 0, slot |-> 0]
    /\ init_ready = FALSE
    /\ pc = [app |-> "idle", listener |-> "idle"]
    /\ listener_exc = ""
    /\ providers = <<>>
    /\ provider_manifests = <<>>
    /\ player_queues = <<>>
    /\ players = <<>>
    /\ subscribers = << PlayersSubscription >>
    /\ scheduled = <<>>
    /\ handles = <<>>
    /\ invoked = <<>>
    /\ handled = <<>>
    /\ listens = 0
    /\ peer = NoServerInfo
    /\ app_connect = ""

Init == Start(Calls) /\ lookup = NoLookup

caches == << providers, provider_manifests, player_queues, players >>
router == << subscribers, scheduled, handles, invoked, handled >>
counters == << answered, events, listens >>

\* a faulty test: connect() always calls the transport
NeverConnected == FALSE

\* the test of connect(): already connected
AlreadyConnected == Connected

\* a faulty version test: the server's own schema version against the client's
SchemaNewer(info) == info.schema_version < API_SCHEMA_VERSION

\* the version test of connect()
Incompatible(info) == info.min_supported_schema_version > API_SCHEMA_VERSION

\* connect() called by the application (also __aenter__)
AppConnect ==
    /\ pc.app = "idle"
    /\ loop' = TRUE
    /\ pc' = IF AlreadyConnected THEN pc ELSE [pc EXCEPT !.app = "connecting"]
    /\ app_connect' = IF AlreadyConnected THEN "already connected" ELSE ""
    /\ UNCHANGED << conn, inbox, sent, server_info, stop_called,
                    result_futures, next_id, calls, fetch, init_ready,
                    listener_exc, caches, router, counters, peer, lookup >>

\* start_listening() up to its first suspension
StartListening ==
    /\ pc.listener \in {"idle", "done"}
    /\ fetch.state \notin {"created", "running"}
    /\ listens < MaxListens
    /\ listens' = listens + 1
    /\ loop' = TRUE
    /\ IF AlreadyConnected
       THEN AfterConnect(conn, inbox)
       ELSE /\ pc' = [pc EXCEPT !.listener = "connecting"]
            /\ listener_exc' = ""
            /\ UNCHANGED << conn, inbox, stop_called, result_futures, calls, fetch >>
    /\ UNCHANGED << sent, answered, events, server_info, next_id, init_ready,
                    caches, router, peer, app_connect, lookup >>

\* connection.connect() returns the server's info
ConnectDone(p) ==
    /\ pc[p] = "connecting"
    /\ \E info \in ServerInfos :
          /\ peer' = info
          /\ IF Incompatible(info)
             THEN /\ \E c \in CloseBegin("open") : conn' = c
                  /\ inbox' = <<>>
                  /\ pc' = [pc EXCEPT ![p] = "rejecting"]
                  /\ UNCHANGED << server_info, stop_called, result_futures, calls,
                                  fetch, listener_exc, app_connect, lookup >>
             ELSE /\ server_info' = info
                  /\ IF p = "app"
                     THEN /\ conn' = "open"
                          /\ inbox' = <<>>
                          /\ pc' = [pc EXCEPT ![p] = "idle"]
                          /\ UNCHANGED << stop_called, result_futures, calls,
                                          fetch, listener_exc, app_connect, lookup >>
                     ELSE /\ AfterConnect("open", <<>>)
                          /\ UNCHANGED app_connect
    /\ UNCHANGED << sent, loop, next_id, init_ready, caches, router, counters,
                    lookup >>

\* connection.connect() raises
ConnectFailed(p) ==
    /\ pc[p] = "connecting"
    /\ pc' = [pc EXCEPT ![p] = IF p = "app" THEN "idle" ELSE "done"]
    /\ listener_exc' = IF p = "app" THEN listener_exc ELSE "CannotConnect"
    /\ app_connect' = IF p = "app" THEN "CannotConnect" ELSE app_connect
    /\ UNCHANGED << conn, inbox, sent, loop, server_info, stop_called,
                    result_futures, next_id, calls, fetch, init_ready, caches,
                    router, counters, peer, lookup >>

\* the connect-time schema failure: connection.disconnect() has returned and
\* InvalidServerVersion is raised
RejectDone(p) ==
    /\ pc[p] = "rejecting"
    /\ conn' = "closed"
    /\ inbox' = <<>>
    /\ pc' = [pc EXCEPT ![p] = IF p = "app" THEN "idle" ELSE "done"]
    /\ listener_exc' = IF p = "app" THEN listener_exc ELSE "InvalidServerVersion"
    /\ app_connect' = IF p = "app" THEN "InvalidServerVersion" ELSE app_connect
    /\ UNCHANGED << sent, loop, server_info, stop_called, result_futures,
                    next_id, calls, fetch, init_ready, caches, router, counters,
                    peer, lookup >>

\* disconnect() called by the application (also __aexit__)
AppDisconnect ==
    /\ pc.app = "idle"
    /\ disconnect("app", conn, inbox, result_futures)
    /\ UNCHANGED << sent, loop, server_info, next_id, calls, fetch,
                    init_ready, listener_exc, caches, router, counters, peer, app_connect, lookup >>

\* connection.disconnect() returns, and with it disconnect()
DisconnectDone(p) ==
    /\ pc[p] = "closing"
    /\ conn' = "closed"
    /\ inbox' = <<>>
    /\ pc' = [pc EXCEPT ![p] = IF p = "app" THEN "idle" ELSE "done"]
    /\ UNCHANGED << sent, loop, server_info, stop_called, result_futures,
                    next_id, calls, fetch, init_ready, listener_exc, caches,
                    router, counters, peer, app_connect, lookup >>

\* the fetch task's "providers" command has its result, set by the read
\* loop, and the task has not run since to store it
ProvidersResultReceived ==
    /\ fetch.state = "running"
    /\ fetch.step = 1
    /\ calls[fetch.slot].pc = "waiting"
    /\ ~calls[fetch.slot].cancel
    /\ result_futures[calls[fetch.slot].id].state = "FINISHED"
    /\ result_futures[calls[fetch.slot].id].outcome.kind = "returned"

\* one turn of the read loop: receive_message() yields a frame, it is
\* handled, and the loop condition is tested again
\* (handled remembers, for an event, whether it overtakes the fetch task's
\* "providers" result: the result was handled before it and is not stored yet)
ReceiveMessage ==
    /\ pc.listener = "receiving"
    /\ inbox # <<>>
    /\ LET r == handle_incoming_message(Head(inbox))
       IN  /\ providers' = r.providers
           /\ scheduled' = r.scheduled
           /\ IF r.raised # "" \/ stop_called
              THEN Teardown(conn, Tail(inbox), r.table, fetch, calls, r.raised)
              ELSE /\ result_futures' = r.table
                   /\ inbox' = Tail(inbox)
                   /\ UNCHANGED << conn, stop_called, calls, fetch, pc, listener_exc >>
    /\ handled' = IF Head(inbox).type = "event"
                  THEN Append(handled, [event |-> Head(inbox), stopped |-> stop_called,
                                        overtakes |-> ProvidersResultReceived])
                  ELSE handled
    /\ UNCHANGED << sent, loop, server_info, next_id, init_ready,
                    provider_manifests, player_queues, players, subscribers,
                    handles, invoked, counters, peer, app_connect, lookup >>

\* receive_message() raises ConnectionClosed
ReceiveClosed ==
    /\ pc.listener = "receiving"
    /\ conn = "closed"
    /\ inbox = <<>>
    /\ Teardown(conn, inbox, result_futures, fetch, calls, "")
    /\ UNCHANGED << sent, loop, server_info, next_id, init_ready, caches,
                    router, counters, peer, app_connect, lookup >>

\* ----------------------------------------------------------------- callers
\* the slot the next call takes
FreeSlot(c) ==
    /\ c \in DOMAIN calls
    /\ calls[c].pc = "idle"
    /\ \A d \in DOMAIN calls : d < c => calls[d].pc # "idle"

\* an application task calls send_command
SendCommand(c, require_schema) ==
    /\ FreeSlot(c)
    /\ LET r == send_command([calls[c] EXCEPT !.owner = "app"], result_futures,
                             next_id, require_schema)
       IN  /\ calls' = [calls EXCEPT ![c] = r.call]
           /\ result_futures' = r.table
           /\ next_id' = r.next_id
    /\ UNCHANGED << conn, inbox, sent, loop, server_info, stop_called, fetch,
                    init_ready, pc, listener_exc, caches, router, counters, peer, app_connect, lookup >>

\* an application task calls send_command_no_wait
SendCommandNoWait(c, require_schema) ==
    /\ FreeSlot(c)
    /\ LET r == send_command_no_wait([calls[c] EXCEPT !.owner = "app"], next_id,
                                     require_schema)
       IN  /\ calls' = [calls EXCEPT ![c] = r.call]
           /\ next_id' = r.next_id
    /\ UNCHANGED << conn, inbox, sent, loop, server_info, stop_called,
                    result_futures, fetch, init_ready, pc, listener_exc,
                    caches, router, counters, peer, app_connect, lookup >>

\* what the caller suspended in `await future` is resumed with
Resumed(call, f) ==
    IF call.cancel THEN Raised("CancelledError", "") ELSE FutureAwait(f)

\* the finally block of send_command
PopEntry(table, id) == DictPop(table, id)

\* send_command from the moment its future is done: the caller resumes, the
\* finally block removes the entry, and the call returns or raises
Return(call, table) ==
    [call |-> [Finish(call, Resumed(call, table[call.id]))
                  EXCEPT !.src = table[call.id].src],
     table |-> PopEntry(table, call.id)]

\* how the fetch task ends when its send_command raises
FetchAfter(call, f, outcome) ==
    IF call.owner # "fetch" THEN f
    ELSE [f EXCEPT !.state = IF outcome.exc = "CancelledError"
                             THEN "cancelled" ELSE "failed"]

\* connection.send_message() returns: send_command_no_wait returns;
\* send_command awaits its future, which suspends it unless the future is
\* done already (disconnect() cancelled it during the send), and then the
\* finally block runs and the call raises in the same step
SendMessageDone(c) ==
    /\ calls[c].pc = "sending"
    /\ ~calls[c].cancel
    /\ conn \in {"open", "closing"}
    /\ sent' = sent \cup {calls[c].id}
    /\ IF calls[c].op = "send_command"
       THEN IF result_futures[calls[c].id].state = "PENDING"
            THEN /\ calls' = [calls EXCEPT ![c].pc = "waiting"]
                 /\ UNCHANGED << result_futures, fetch >>
            ELSE LET r == Return(calls[c], result_futures)
                 IN  /\ calls' = [calls EXCEPT ![c] = r.call]
                     /\ result_futures' = r.table
                     /\ fetch' = FetchAfter(calls[c], fetch, r.call.outcome)
       ELSE /\ calls' = [calls EXCEPT ![c] = Finish(@, Returned(<<>>))]
            /\ UNCHANGED << result_futures, fetch >>
    /\ UNCHANGED << conn, inbox, loop, server_info, stop_called,
                    next_id, init_ready, pc, listener_exc, caches,
                    router, counters, peer, app_connect, lookup >>

\* connection.send_message() raises (the socket is gone, or the task was
\* cancelled while suspended in it): the await is outside send_command's try
SendMessageRaises(c) ==
    /\ calls[c].pc = "sending"
    /\ calls[c].cancel \/ conn \in {"closed", "closing"}
    /\ LET out == IF calls[c].cancel THEN Raised("CancelledError", "")
                  ELSE Raised("ConnectionClosed", "")
       IN  /\ calls' = [calls EXCEPT ![c] = Finish(@, out)]
           /\ fetch' = FetchAfter(calls[c], fetch, out)
    /\ UNCHANGED << conn, inbox, sent, loop, server_info, stop_called,
                    result_futures, next_id, init_ready, pc, listener_exc,
                    caches, router, counters, peer, app_connect, lookup >>

\* the future of an application caller is done
CallerResume(c) ==
    /\ calls[c].pc = "waiting"
    /\ calls[c].owner = "app"
    /\ result_futures[calls[c].id].state # "PENDING"
    /\ LET r == Return(calls[c], result_futures)
       IN  /\ calls' = [calls EXCEPT ![c] = r.call]
           /\ result_futures' = r.table
    /\ UNCHANGED << conn, inbox, sent, loop, server_info, stop_called, next_id,
                    fetch, init_ready, pc, listener_exc, caches, router, counters, peer, app_connect, lookup >>

\* the application cancels the task of one of its callers
CancelCall(c) ==
    /\ calls[c].pc \in {"sending", "waiting"}
    /\ calls[c].owner = "app"
    /\ ~calls[c].cancel
    /\ calls' = [calls EXCEPT ![c].cancel = TRUE]
    /\ result_futures' =
          IF calls[c].pc = "waiting"
          THEN [result_futures EXCEPT ![calls[c].id] = FutureCancel(@)]
          ELSE result_futures
    /\ UNCHANGED << conn, inbox, sent, loop, server_info, stop_called,
                    next_id, fetch, init_ready, pc, listener_exc, caches,
                    router, counters, peer, app_connect, lookup >>

\* ------------------------------------------------------ initial-state fetch
\* the number of commands fetch_initial_state issues: providers,
\* providers/manifests, the queues' state, the players' state
FetchSteps == 4

\* the fetch task after it has called send_command for step `step` from
\* slot c
FetchCalled(call, step, c) ==
    [state |-> IF call.pc = "sending" THEN "running" ELSE "failed",
     step |-> step, slot |-> c]

\* the fetch task runs for the first time: send_command("providers")
FetchStart(c) ==
    /\ fetch.state = "created"
    /\ FreeSlot(c)
    /\ LET r == send_command([NewCall EXCEPT !.owner = "fetch"], result_futures,
                             next_id, NoSchema)
       IN  /\ calls' = [calls EXCEPT ![c] = r.call]
           /\ result_futures' = r.table
           /\ next_id' = r.next_id
           /\ fetch' = FetchCalled(r.call, 1, c)
    /\ UNCHANGED << conn, inbox, sent, loop, server_info, stop_called,
                    init_ready, pc, listener_exc, caches, router, counters, peer, app_connect, lookup >>

\* the caches after the fetch task has stored the result of its step
Stored(step, val) ==
    [providers |-> IF step = 1 THEN DictById(val) ELSE providers,
     provider_manifests |-> IF step = 2 THEN DictByDomain(val) ELSE provider_manifests,
     player_queues |-> IF step = 3 THEN DictById(val) ELSE player_queues,
     players |-> IF step = 4 THEN DictById(val) @@ players ELSE players]

\* the future of the fetch task's command is done and the command raises:
\* the task ends with it
FetchRaises ==
    /\ fetch.state = "running"
    /\ calls[fetch.slot].pc = "waiting"
    /\ result_futures[calls[fetch.slot].id].state # "PENDING"
    /\ LET r == Return(calls[fetch.slot], result_futures)
       IN  /\ r.call.outcome.kind = "raised"
           /\ calls' = [calls EXCEPT ![fetch.slot] = r.call]
           /\ result_futures' = r.table
           /\ fetch' = FetchAfter(r.call, fetch, r.call.outcome)
    /\ UNCHANGED << conn, inbox, sent, loop, server_info, stop_called, next_id,
                    init_ready, pc, listener_exc, caches, router, counters, peer, app_connect, lookup >>

\* the future of the fetch task's command is done and the command returns:
\* the task stores the result and issues its next command from slot c
FetchNext(c) ==
    /\ fetch.state = "running"
    /\ fetch.step < FetchSteps
    /\ calls[fetch.slot].pc = "waiting"
    /\ result_futures[calls[fetch.slot].id].state # "PENDING"
    /\ FreeSlot(c)
    /\ LET r == Return(calls[fetch.slot], result_futures)
           st == Stored(fetch.step, r.call.outcome.val)
           n == send_command([NewCall EXCEPT !.owner = "fetch"], r.table,
                             next_id, NoSchema)
       IN  /\ r.call.outcome.kind = "returned"
           /\ providers' = st.providers
           /\ provider_manifests' = st.provider_manifests
           /\ player_queues' = st.player_queues
           /\ players' = st.players
           /\ calls' = [calls EXCEPT ![fetch.slot] = r.call, ![c] = n.call]
           /\ result_futures' = n.table
           /\ next_id' = n.next_id
           /\ fetch' = FetchCalled(n.call, fetch.step + 1, c)
    /\ UNCHANGED << conn, inbox, sent, loop, server_info, stop_called,
                    init_ready, pc, listener_exc, router, counters, peer, app_connect, lookup >>

\* a faulty end of the fetch task: init_ready is set after any step
FetchDoneEarly ==
    /\ fetch.state = "running"
    /\ fetch.step >= 1
    /\ calls[fetch.slot].pc = "waiting"
    /\ result_futures[calls[fetch.slot].id].state # "PENDING"
    /\ LET r == Return(calls[fetch.slot], result_futures)
           st == Stored(fetch.step, r.call.outcome.val)
       IN  /\ r.call.outcome.kind = "returned"
           /\ providers' = st.providers
           /\ provider_manifests' = st.provider_manifests
           /\ player_queues' = st.player_queues
           /\ players' = st.players
           /\ calls' = [calls EXCEPT ![fetch.slot] = r.call]
           /\ result_futures' = r.table
           /\ fetch' = [fetch EXCEPT !.state = "finished"]
           /\ init_ready' = TRUE
    /\ UNCHANGED << conn, inbox, sent, loop, server_info, stop_called, next_id,
                    pc, listener_exc, router, counters, peer, app_connect, lookup >>

\* the last command of the fetch task returns: the task stores the result
\* and sets init_ready
FetchDone ==
    /\ fetch.state = "running"
    /\ fetch.step = FetchSteps
    /\ calls[fetch.slot].pc = "waiting"
    /\ result_futures[calls[fetch.slot].id].state # "PENDING"
    /\ LET r == Return(calls[fetch.slot], result_futures)
           st == Stored(fetch.step, r.call.outcome.val)
       IN  /\ r.call.outcome.kind = "returned"
           /\ providers' = st.providers
           /\ provider_manifests' = st.provider_manifests
           /\ player_queues' = st.player_queues
           /\ players' = st.players
           /\ calls' = [calls EXCEPT ![fetch.slot] = r.call]
           /\ result_futures' = r.table
           /\ fetch' = [fetch EXCEPT !.state = "finished"]
           /\ init_ready' = TRUE
    /\ UNCHANGED << conn, inbox, sent, loop, server_info, stop_called, next_id,
                    pc, listener_exc, router, counters, peer, app_connect, lookup >>

\* ------------------------------------------------------------ environment
\* the server answers a command it was sent, once
ServerResult(msg) ==
    /\ conn \in {"open", "closing"}
    /\ msg.message_id \notin answered
    /\ answered' = answered \cup {msg.message_id}
    /\ inbox' = Append(inbox, msg)
    /\ UNCHANGED << conn, sent, events, loop, server_info, stop_called,
                    result_futures, next_id, calls, fetch, init_ready, pc,
                    listener_exc, caches, router, listens, peer, app_connect, lookup >>

\* the server pushes an event
ServerEvent(msg) ==
    /\ conn \in {"open", "closing"}
    /\ events < MaxEvents
    /\ events' = events + 1
    /\ inbox' = Append(inbox, [msg EXCEPT !.seq = events + 1])
    /\ UNCHANGED << conn, sent, answered, loop, server_info, stop_called,
                    result_futures, next_id, calls, fetch, init_ready, pc,
                    listener_exc, caches, router, listens, peer, app_connect, lookup >>

\* the socket drops
PeerClose ==
    /\ conn = "open"
    /\ conn' = "closed"
    /\ UNCHANGED << inbox, sent, loop, server_info, stop_called, result_futures,
                    next_id, calls, fetch, init_ready, pc, listener_exc,
                    caches, router, counters, peer, app_connect, lookup >>

\* the loop runs the callback at the head of its queue: a plain callback is
\* invoked; for a coroutine callback this is run_coroutine_threadsafe's own
\* callback, which creates the task, and the task's first step, which starts
\* the coroutine, is handed to the loop in turn
RunCallback ==
    /\ scheduled # <<>>
    /\ LET h == Head(scheduled)
       IN  IF h.kind = "spawn"
           THEN /\ scheduled' = Append(Tail(scheduled), [h EXCEPT !.kind = "step"])
                /\ UNCHANGED << invoked, players >>
           ELSE /\ scheduled' = Tail(scheduled)
                /\ invoked' = Append(invoked, [sid |-> h.sid, cb_func |-> h.cb_func,
                                               event |-> h.event])
                /\ players' = IF h.cb_func = "Players._handle_event"
                              THEN players_handle_event(h.event)
                              ELSE players
    /\ UNCHANGED << conn, inbox, sent, loop, server_info, stop_called,
                    result_futures, next_id, calls, fetch, init_ready, pc,
                    listener_exc, providers, provider_manifests, player_queues,
                    subscribers, handles, handled, counters, peer, app_connect, lookup >>

\* the application calls subscribe(): the listener is appended and the
\* handle that removes it is returned
Subscribe(args) ==
    /\ Len(handles) < MaxSubs
    /\ LET listener == Listener(Len(handles) + 1, args[1], args[2], args[3])
       IN  /\ subscribers' = Append(subscribers, listener)
           /\ handles' = Append(handles, [listener |-> listener, args |-> args,
                                          called |-> FALSE])
    /\ UNCHANGED << conn, inbox, sent, loop, server_info, stop_called,
                    result_futures, next_id, calls, fetch, init_ready, pc,
                    listener_exc, caches, scheduled, invoked, handled,
                    counters, peer, app_connect, lookup >>

\* the application calls the handle subscribe() returned: remove_listener()
Unsubscribe(h) ==
    /\ h \in DOMAIN handles
    /\ ~handles[h].called
    /\ subscribers' = ListRemove(subscribers, handles[h].listener)
    /\ handles' = [handles EXCEPT ![h].called = TRUE]
    /\ UNCHANGED << conn, inbox, sent, loop, server_info, stop_called,
                    result_futures, next_id, calls, fetch, init_ready, pc,
                    listener_exc, caches, scheduled, invoked, handled,
                    counters, peer, app_connect, lookup >>

\* ----------------------------------------------------------- specification
\* the correlator under the connection's lifecycle: commands, results, the
\* read loop, cancellation and teardown
Next ==
    \/ AppConnect
    \/ AppDisconnect
    \/ StartListening
    \/ \E p \in {"app", "listener"} : ConnectDone(p)
    \/ \E p \in {"app", "listener"} : ConnectFailed(p)
    \/ \E p \in {"app", "listener"} : RejectDone(p)
    \/ \E p \in {"app", "listener"} : DisconnectDone(p)
    \/ ReceiveMessage
    \/ ReceiveClosed
    \/ \E c \in Calls, rs \in RequireSchemas : SendCommand(c, rs)
    \/ \E c \in Calls, rs \in RequireSchemas : SendCommandNoWait(c, rs)
    \/ \E c \in Calls : SendMessageDone(c)
    \/ \E c \in Calls : SendMessageRaises(c)
    \/ \E c \in Calls : CallerResume(c)
    \/ \E c \in Calls : CancelCall(c)
    \/ \E c \in Calls : FetchStart(c)
    \/ FetchRaises
    \/ \E c \in Calls : FetchNext(c)
    \/ \E msg \in ResultFrames(sent) : ServerResult(msg)
    \/ PeerClose

Spec == Init /\ [][Next]_vars

\* the event router under the read loop: subscriptions, events, the loop's
\* callbacks and teardown
NextEvents ==
    \/ StartListening
    \/ \E p \in {"app", "listener"} : ConnectDone(p)
    \/ \E p \in {"app", "listener"} : ConnectFailed(p)
    \/ \E p \in {"app", "listener"} : RejectDone(p)
    \/ AppDisconnect
    \/ \E p \in {"app", "listener"} : DisconnectDone(p)
    \/ ReceiveMessage
    \/ ReceiveClosed
    \/ \E args \in SubscribeArgs : Subscribe(args)
    \/ \E h \in 1..MaxSubs : Unsubscribe(h)
    \/ \E msg \in EventFrames : ServerEvent(msg)
    \/ RunCallback

SpecEvents == Init /\ [][NextEvents]_vars

\* the initial-state fetch beside the read loop: start_listening, the fetch
\* task's four commands, the server's results and PROVIDERS_UPDATED events,
\* the application's disconnect() and the teardown
FetchCalls == 1..FetchSteps

InitFetch == Start(FetchCalls) /\ lookup = NoLookup

NextFetch ==
    \/ StartListening
    \/ ConnectDone("listener")
    \/ ConnectFailed("listener")
    \/ RejectDone("listener")
    \/ AppDisconnect
    \/ \E p \in {"app", "listener"} : DisconnectDone(p)
    \/ ReceiveMessage
    \/ ReceiveClosed
    \/ \E c \in FetchCalls : FetchStart(c)
    \/ FetchRaises
    \/ \E c \in FetchCalls : FetchNext(c)
    \/ FetchDone
    \/ \E c \in FetchCalls : SendMessageDone(c)
    \/ \E c \in FetchCalls : SendMessageRaises(c)
    \/ \E msg \in ResultFrames(sent) : ServerResult(msg)
    \/ \E msg \in ProviderEvents : ServerEvent(msg)
    \/ PeerClose

SpecFetch == InitFetch /\ [][NextFetch]_vars

\* the same under the loop's scheduling: a coroutine that can run is run
\* (the fetch task, the read loop, a send that can complete), and the server
\* answers the commands it was sent
SpecFetchLive ==
    /\ InitFetch
    /\ [][NextFetch]_vars
    /\ WF_vars(\E c \in FetchCalls : FetchStart(c))
    /\ WF_vars(\E c \in FetchCalls : FetchNext(c))
    /\ WF_vars(FetchDone)
    /\ WF_vars(FetchRaises)
    /\ WF_vars(\E c \in FetchCalls : SendMessageDone(c))
    /\ WF_vars(ReceiveMessage)
    /\ WF_vars(\E msg \in ResultFrames(sent) : ServerResult(msg))

\* get_provider over the mappings the client can hold
GetProvider(name, return_unavailable) ==
    /\ lookup' = [lookup EXCEPT
                     !.name = name, !.return_unavailable = return_unavailable,
                     !.called = TRUE,
                     !.result = get_provider(lookup.providers, name, return_unavailable)]
    /\ UNCHANGED << conn, inbox, sent, loop, server_info, stop_called,
                    result_futures, next_id, calls, fetch, init_ready, pc,
                    listener_exc, caches, router, counters, peer, app_connect >>

InitLookup ==
    /\ Start(Calls)
    /\ \E d \in ProviderDicts : lookup = [NoLookup EXCEPT !.providers = d]

NextLookup == \E name \in LookupNames, ru \in BOOLEAN : GetProvider(name, ru)

SpecLookup == InitLookup /\ [][NextLookup]_vars

\* a step of the fetch task is in the loop's queue: its first step, or its
\* wake-up by a future that is done
FetchReady ==
    \/ fetch.state = "created"
    \/ /\ fetch.state = "running"
       /\ calls[fetch.slot].pc = "waiting"
       /\ result_futures[calls[fetch.slot].id].state # "PENDING"

\* connection.disconnect() returns in the loop's order: the loop runs what
\* was queued in the order it was queued, so a step of the fetch task queued
\* before disconnect() suspended has run when disconnect() resumes
DisconnectDoneInTurn(p) == ~FetchReady /\ DisconnectDone(p)

\* the initial-state fetch beside the read loop, the loop running its queue
\* in order
NextFetchInTurn ==
    \/ StartListening
    \/ ConnectDone("listener")
    \/ ConnectFailed("listener")
    \/ RejectDone("listener")
    \/ AppDisconnect
    \/ \E p \in {"app", "listener"} : DisconnectDoneInTurn(p)
    \/ ReceiveMessage
    \/ ReceiveClosed
    \/ \E c \in FetchCalls : FetchStart(c)
    \/ FetchRaises
    \/ \E c \in FetchCalls : FetchNext(c)
    \/ FetchDone
    \/ \E c \in FetchCalls : SendMessageDone(c)
    \/ \E c \in FetchCalls : SendMessageRaises(c)
    \/ \E msg \in ResultFrames(sent) : ServerResult(msg)
    \/ \E msg \in ProviderEvents : ServerEvent(msg)
    \/ PeerClose

SpecFetchInTurn == InitFetch /\ [][NextFetchInTurn]_vars

\* ------------------------------------------------------------------ claims
\* the calls that registered a pending operation
Registered(c) == calls[c].op = "send_command" /\ calls[c].id # 0

\* the typed errors of the error map
TypedErrors == { ERROR_MAP[code] : code \in DOMAIN ERROR_MAP }

\* C1: a send_command call returns the value, or raises the typed error,
\* carried by the result message whose message_id is the id generated for
\* that call, never another call's; and no two calls share an id.
C1_OwnResult ==
    /\ \A c \in Calls :
          (Registered(c) /\ calls[c].pc = "done") =>
             /\ calls[c].outcome.kind = "returned" =>
                   calls[c].src = SuccessResult(calls[c].id, calls[c].outcome.val)
             /\ calls[c].outcome.exc \in TypedErrors =>
                   /\ calls[c].src.type = "error"
                   /\ calls[c].src.message_id = calls[c].id
                   /\ calls[c].src.error_code \in DOMAIN ERROR_MAP
                   /\ ERROR_MAP[calls[c].src.error_code] = calls[c].outcome.exc
                   /\ calls[c].src.details = calls[c].outcome.details
             /\ calls[c].src.type # "none" => calls[c].id \in answered
    /\ \A c, d \in Calls :
          (c # d /\ calls[c].id # 0 /\ calls[d].id # 0) => calls[c].id # calls[d].id

\* two calls in flight, the later one has returned its own result while the
\* earlier one is still pending
C1_Witness ==
    \E c, d \in Calls :
       /\ Registered(c) /\ Registered(d) /\ calls[c].id < calls[d].id
       /\ calls[c].pc = "waiting"
       /\ result_futures[calls[c].id].state = "PENDING"
       /\ calls[d].pc = "done"
       /\ calls[d].outcome = Returned(ResultOf(calls[d].id))

\* a step in which disconnect() runs its flag assignment and cancellation loop
DisconnectRuns == \E p \in DOMAIN pc : pc[p] # "closing" /\ pc'[p] = "closing"

\* a step in which a disconnect() returns to its caller
DisconnectReturns == \E p \in DOMAIN pc : pc[p] = "closing" /\ pc'[p] # "closing"

\* callers suspended on a future nothing has settled yet
Suspended(c) ==
    /\ Registered(c)
    /\ calls[c].pc = "waiting"
    /\ result_futures[calls[c].id].state = "PENDING"

\* C2: a pending operation is settled exactly once; no sequence of result
\* frames, caller cancellations and disconnect() calls settles a settled
\* future again (set_result or set_exception on a done future raises
\* InvalidStateError in the read loop).
C2_SettledOnce == listener_exc # "InvalidStateError"

\* C3: the table holds exactly one entry per in-flight send_command call and
\* no others, whatever the path by which a call ends.
C3_TableIsInFlight ==
    DOMAIN result_futures =
        { calls[c].id : c \in { d \in Calls : Registered(d)
                                  /\ calls[d].pc \in {"sending", "waiting"} } }

\* C4: when disconnect() returns, the table is empty.
C4_EmptyAfterDisconnect ==
    [][ DisconnectReturns => DOMAIN result_futures' = {} ]_vars

\* C5: no interleaving of send_command with disconnect() orphans a caller:
\* when a disconnect() returns and neither another disconnect() nor the read
\* loop is still running, no caller is suspended on an unsettled future.
C5_NoOrphan ==
    [][ (DisconnectReturns /\ pc'.app = "idle" /\ pc'.listener \in {"idle", "done"})
           => \A c \in Calls :
                 (Registered(c) /\ calls'[c].pc = "waiting")
                    => result_futures'[calls'[c].id].state # "PENDING" ]_vars

\* a result message with no entry in the table, or with a settled one
Stale(msg) ==
    /\ msg.type \in {"success", "error"}
    /\ \/ msg.message_id \notin DOMAIN result_futures
       \/ result_futures[msg.message_id].state # "PENDING"

\* C6: a result message for an unknown or already settled operation is
\* dropped: the read loop raises nothing, no pending operation changes, and
\* the loop goes on (unless disconnect() has set the stop flag).
C6_StaleDropped ==
    [][ (ReceiveMessage /\ Stale(Head(inbox)))
           => /\ listener_exc' = ""
              /\ ~stop_called => /\ result_futures' = result_futures
                                 /\ pc'.listener = "receiving" ]_vars

C8_TypedError ==
    [][ /\ \A code \in DOMAIN ERROR_MAP, d \in {"x", "y"} :
              \A id \in DOMAIN result_futures :
                 (ReceiveMessage /\ Head(inbox) = ErrorResult(id, code, d)
                    /\ result_futures[id].state = "PENDING")
                    => /\ result_futures'[id].state = "FINISHED"
                       /\ result_futures'[id].outcome = Raised(ERROR_MAP[code], d)
                       /\ \A other \in DOMAIN result_futures \ {id} :
                             result_futures'[other] =
                                IF stop_called THEN FutureCancel(result_futures[other])
                                ELSE result_futures[other]
        /\ \A c \in Calls :
              (Registered(c) /\ calls[c].pc = "waiting" /\ calls'[c].pc = "done"
                 /\ ~calls[c].cancel
                 /\ result_futures[calls[c].id].src.type = "error")
                 => calls'[c].outcome =
                       Raised(IF result_futures[calls[c].id].src.error_code = 1
                              THEN "ProviderUnavailableError"
                              ELSE "MediaNotFoundError",
                              result_futures[calls[c].id].src.details) ]_vars

\* a caller has raised the typed error of its ErrorResult while another
\* caller is still suspended on its own pending operation
C8_Witness ==
    \E c, d \in Calls :
       /\ Registered(c) /\ calls[c].pc = "done"
       /\ calls[c].outcome = Raised("MediaNotFoundError", "y")
       /\ Suspended(d)

\* C9: send_command called with no established connection raises
\* InvalidState, generates no id, registers no pending operation and
\* transmits nothing.
C9_NotConnected ==
    [][ \A c \in Calls :
           (calls[c].pc = "idle" /\ calls'[c].op = "send_command" /\ ~Connected)
              => /\ calls'[c].pc = "done"
                 /\ calls'[c].outcome = Raised("InvalidState", "Not connected")
                 /\ calls'[c].id = 0
                 /\ DOMAIN result_futures' \subseteq DOMAIN result_futures
                 /\ next_id' = next_id
                 /\ sent' = sent ]_vars

\* send_command has failed so after the disconnect() of a client that was
\* connected
C9_Witness ==
    /\ stop_called
    /\ server_info # NoServerInfo
    /\ ~Connected
    /\ \E c \in Calls :
          /\ calls[c].op = "send_command" /\ calls[c].owner = "app"
          /\ ~calls[c].was_connected
          /\ calls[c].pc = "done"
          /\ calls[c].outcome = Raised("InvalidState", "Not connected")

\* C10: in every state in which send_command fails with InvalidState,
\* send_command_no_wait fails with InvalidState too and transmits nothing;
\* and it leaves the table unchanged.
C10_SamePrecondition ==
    [][ \A c \in Calls :
           (calls[c].pc = "idle" /\ calls'[c].op = "send_command_no_wait"
              /\ NotConnected)
              => /\ calls'[c].pc = "done"
                 /\ calls'[c].outcome = Raised("InvalidState", "Not connected")
                 /\ result_futures' = result_futures ]_vars

\* C11: a send_command or send_command_no_wait call on a connected client
\* whose require_schema exceeds the schema_version of the server the
\* connection leads to raises InvalidServerVersion before anything is sent:
\* no id is generated and no pending operation registered.
C11_SchemaGate ==
    [][ \A c \in Calls, rs \in RequireSchemas :
           ((SendCommand(c, rs) \/ SendCommandNoWait(c, rs))
              /\ Connected /\ loop
              /\ rs # NoSchema /\ rs > peer.schema_version)
              => /\ calls'[c].pc = "done"
                 /\ calls'[c].outcome = Raised("InvalidServerVersion", "")
                 /\ result_futures' = result_futures
                 /\ next_id' = next_id ]_vars

\* a step in which a connect() ends its connect-time rejection
ConnectRejected == \E p \in DOMAIN pc : pc[p] = "rejecting" /\ pc'[p] # "rejecting"

\* C12: connect() against a server whose min_supported_schema_version
\* exceeds API_SCHEMA_VERSION does not capture the server's info, issues
\* disconnect() to the transport and raises InvalidServerVersion with the
\* connection closed.
C12_ConnectRejects ==
    [][ /\ \A p \in DOMAIN pc :
              (ConnectDone(p) /\ peer'.min_supported_schema_version > 25)
                 => /\ pc'[p] = "rejecting"
                    /\ server_info' = server_info
        /\ \A p \in DOMAIN pc :
              (pc[p] = "rejecting" /\ pc'[p] # "rejecting")
                 => /\ conn' = "closed"
                    /\ p = "app" => /\ pc'.app = "idle"
                                    /\ app_connect' = "InvalidServerVersion"
                    /\ p = "listener" => /\ pc'.listener = "done"
                                         /\ listener_exc' = "InvalidServerVersion" ]_vars

\* the application's connect() has raised InvalidServerVersion against a
\* server that requires a newer client, and the connection is closed
C12_Witness ==
    /\ app_connect = "InvalidServerVersion"
    /\ pc.app = "idle"
    /\ peer.min_supported_schema_version > 25
    /\ conn = "closed"

\* C13: server_info is present only while there is a live connection: it is
\* absent when a connect() has failed its version test and when a
\* disconnect() has returned with the connection closed.
C13_InfoOnlyWhileLive ==
    [][ ((DisconnectReturns \/ ConnectRejected) /\ conn' = "closed")
           => server_info' = NoServerInfo ]_vars

\* C14: connect() on a connected client returns at once: the transport's
\* connect() is not called and server_info, the table, the subscribers and
\* the caches are unchanged; start_listening()'s connect() likewise.
C14_ConnectIdempotent ==
    [][ /\ (AppConnect /\ Connected)
           => /\ pc' = pc
              /\ app_connect' = "already connected"
              /\ UNCHANGED << conn, inbox, server_info, stop_called,
                              result_futures, subscribers, scheduled, caches,
                              peer >>
        /\ (StartListening /\ Connected)
           => /\ pc'.listener # "connecting"
              /\ UNCHANGED << server_info, subscribers, caches, peer >> ]_vars

\* connect() has returned at once on a connected client that has a pending
\* operation
C14_Witness ==
    /\ app_connect = "already connected"
    /\ Connected
    /\ pc.app = "idle"
    /\ server_info # NoServerInfo
    /\ \E c \in Calls : Suspended(c)

\* C15: disconnect() can be called again: any call, the first or a later
\* one, raises nothing and fails on no future (a done future is left as it
\* is, a pending one is cancelled, no entry is removed), and a call on an
\* already stopped, closed client leaves the flag set and the connection
\* closed.
C15_DisconnectAgain ==
    [][ (AppDisconnect \/ ReceiveClosed)
           => /\ stop_called'
              /\ DOMAIN result_futures' = DOMAIN result_futures
              /\ \A id \in DOMAIN result_futures :
                    result_futures'[id] =
                       IF result_futures[id].state = "PENDING"
                       THEN [result_futures[id] EXCEPT !.state = "CANCELLED"]
                       ELSE result_futures[id]
              /\ listener_exc' \in {listener_exc, ""}
              /\ UNCHANGED << server_info, subscribers, caches >>
              /\ conn = "closed" => conn' = "closed" ]_vars

\* start_listening's teardown has called disconnect() and returned, and the
\* application's disconnect() (__aexit__) runs on the stopped client while a
\* finished future is still in the table
C15_Witness ==
    /\ stop_called
    /\ pc.listener = "done" /\ listener_exc = ""
    /\ pc.app = "closing"
    /\ conn = "closed"
    /\ \E id \in DOMAIN result_futures : result_futures[id].state # "PENDING"

\* a turn of the read loop that handles an event frame
HandlesEvent == ReceiveMessage /\ Head(inbox).type = "event"

\* the arguments a subscription was registered with
ArgsOf(sub) ==
    IF sub.sid = 0
    THEN << "Players._handle_event", Several(PlayerEvents), NoFilter >>
    ELSE handles[sub.sid].args

\* a filter argument lets value x through
Lets(arg, x) ==
    \/ arg.form = "none"
    \/ arg.form = "single" /\ x = arg.val
    \/ arg.form = "tuple" /\ x \in arg.items

\* C16: while the stop flag is not set, handling an event hands to the loop
\* the callbacks of exactly the subscriptions whose event filter is unset or
\* holds the event's type and whose id filter is unset or holds the event's
\* object_id, a single value counting as a one-element filter; nothing
\* already handed over is touched.
C16_FilteredDelivery ==
    [][ (HandlesEvent /\ ~stop_called)
           => LET e == Head(inbox)
                  Wanted(sub) == /\ Lets(ArgsOf(sub)[2], e.event)
                                 /\ Lets(ArgsOf(sub)[3], e.object_id)
                  want == SelectSeq(subscribers, Wanted)
                  n == Len(scheduled)
              IN  /\ Len(scheduled') = n + Len(want)
                  /\ \A i \in 1..n : scheduled'[i] = scheduled[i]
                  /\ \A i \in 1..Len(want) :
                        /\ scheduled'[n + i].sid = want[i].sid
                        /\ scheduled'[n + i].cb_func = want[i].cb_func
                        /\ scheduled'[n + i].event = e ]_vars

\* the subscription with single-value filters has been invoked for the
\* PLAYER_ADDED event of player "a", the unfiltered one for a
\* PROVIDERS_UPDATED event, and an event of player "b" has been handled
C16_Witness ==
    /\ \E i \in DOMAIN invoked :
          /\ invoked[i].cb_func = "on_event_async"
          /\ invoked[i].event.event = "PLAYER_ADDED"
          /\ invoked[i].event.object_id = "a"
    /\ \E i \in DOMAIN handled : handled[i].event.object_id = "b"
    /\ \A i \in DOMAIN invoked :
          invoked[i].cb_func = "on_event_async" => invoked[i].event.object_id = "a"

\* C17: with the stop flag set, handling an event hands no callback to the
\* loop and leaves the provider cache as it was, whatever the event's type.
C17_StoppedNoop ==
    [][ (HandlesEvent /\ stop_called)
           => /\ scheduled' = scheduled
              /\ invoked' = invoked
              /\ providers' = providers ]_vars

\* a PROVIDERS_UPDATED event has been handled with the stop flag set while
\* an unfiltered subscription was registered, and the cache is still empty
C17_Witness ==
    /\ \E i \in DOMAIN handled :
          /\ handled[i].stopped
          /\ handled[i].event.event = "PROVIDERS_UPDATED"
          /\ \A j \in DOMAIN handled : handled[j].stopped
    /\ \E i \in DOMAIN subscribers : subscribers[i].cb_func = "on_event"
    /\ providers = <<>>
    /\ scheduled = <<>>

\* C18: handling a PROVIDERS_UPDATED event replaces the provider mapping by
\* the payload's instances keyed by instance_id, nothing of the old mapping
\* is kept, and the manifest mapping is unchanged.
C18_ProvidersReplaced ==
    [][ (HandlesEvent /\ ~stop_called /\ Head(inbox).event = "PROVIDERS_UPDATED")
           => LET data == Head(inbox).data
              IN  /\ DOMAIN providers' = { data[i].id : i \in DOMAIN data }
                  /\ \A i \in DOMAIN data :
                        (\A j \in DOMAIN data : j > i => data[j].id # data[i].id)
                           => providers'[data[i].id] = data[i]
                  /\ provider_manifests' = provider_manifests ]_vars

\* two PROVIDERS_UPDATED events have been handled, the second without the
\* instance "b" of the first, and the mapping holds instance "a" only
C18_Witness ==
    /\ Len(handled) = 2
    /\ \A i \in {1, 2} : /\ ~handled[i].stopped
                         /\ handled[i].event.event = "PROVIDERS_UPDATED"
    /\ handled[1].event.data = << ItemB, ItemA >>
    /\ handled[2].event.data = << ItemA >>
    /\ DOMAIN providers = {"a"}

\* C19: callbacks are invoked in a fixed order: for one event in the order
\* of registration of the subscriptions, for one subscription in the order
\* of arrival of the events.
C19_InvocationOrder ==
    \A i, j \in DOMAIN invoked :
       i < j =>
          /\ invoked[i].event.seq = invoked[j].event.seq
                => invoked[i].sid < invoked[j].sid
          /\ invoked[i].sid = invoked[j].sid
                => invoked[i].event.seq < invoked[j].event.seq

\* the subscriptions of a list, without their registration numbers
Tuples(subs) ==
    [i \in DOMAIN subs |-> << subs[i].cb_func, subs[i].event_filter, subs[i].id_filter >>]

\* the subscriptions whose handle has not been called, in registration order
Living ==
    LET Alive(h) == ~h.called
        alive == SelectSeq(handles, Alive)
    IN  << PlayersSubscription >> \o [i \in DOMAIN alive |-> alive[i].listener]

\* C20: calling a handle removes exactly its subscription: the list holds
\* the subscriptions whose handle has not been called, in the order of
\* their registration.
C20_ExactRemoval == Tuples(subscribers) = Tuples(Living)

\* C21: a matching plain callback is invoked within the handling of its
\* event: when the read loop handles a frame, no plain callback of an
\* earlier event is still waiting in the loop's queue, and the Players cache
\* holds every player an earlier PLAYER_ADDED event announced.
C21_RunBeforeNextFrame ==
    [][ ReceiveMessage
           => /\ \A i \in DOMAIN scheduled : scheduled[i].kind # "call"
              /\ \A i \in DOMAIN handled :
                    (~handled[i].stopped /\ handled[i].event.event = "PLAYER_ADDED")
                       => handled[i].event.object_id \in DOMAIN players ]_vars

\* the PROVIDERS_UPDATED events the read loop has handled with the stop flag
\* unset, by their position in the log
ProviderUpdates ==
    { i \in DOMAIN handled :
         ~handled[i].stopped /\ handled[i].event.event = "PROVIDERS_UPDATED" }

\* C22: the fetch never overwrites the provider mapping with a "providers"
\* result that arrived before a PROVIDERS_UPDATED event: when the latest such
\* event was handled after the fetch task's result, the mapping is that
\* event's snapshot.
C22_NoStaleOverwrite ==
    \A i \in ProviderUpdates :
       ((\A j \in ProviderUpdates : j <= i) /\ handled[i].overtakes)
          => providers = DictById(handled[i].event.data)

\* the first element, in enumeration order, of the instances of a domain
\* that are available or may be returned unavailable
FirstOfDomain(provs, domain, ru) ==
    LET m == { j \in DOMAIN provs :
                  provs[j].domain = domain /\ (ru \/ provs[j].available) }
    IN  IF m = {} THEN NoProvider
        ELSE provs[CHOOSE j \in m : \A k \in m : j <= k]

\* the reference lookup
ReferenceLookup(provs, x, ru) ==
    LET ids == { j \in DOMAIN provs : provs[j].instance_id = x }
        inst == provs[CHOOSE j \in ids : TRUE]
    IN  IF ids # {} /\ (inst.available \/ ru) THEN inst
        ELSE IF ids # {} /\ ~inst.is_streaming_provider THEN NoProvider
        ELSE IF ids # {} THEN FirstOfDomain(provs, inst.domain, ru)
        ELSE FirstOfDomain(provs, x, ru)

\* C23: get_provider returns what the reference lookup returns, and with
\* return_unavailable false never an unavailable instance.
C23_GetProvider ==
    lookup.called =>
       /\ lookup.result =
             ReferenceLookup(lookup.providers, lookup.name, lookup.return_unavailable)
       /\ (~lookup.return_unavailable /\ lookup.result # NoProvider)
             => lookup.result.available

\* get_provider was asked for an instance that is unavailable and no
\* streaming provider while another instance of its domain is available,
\* and returned None
C23_Witness ==
    /\ lookup.called
    /\ ~lookup.return_unavailable
    /\ lookup.result = NoProvider
    /\ \E i, j \in DOMAIN lookup.providers :
          /\ lookup.providers[i].instance_id = lookup.name
          /\ ~lookup.providers[i].available
          /\ ~lookup.providers[i].is_streaming_provider
          /\ lookup.providers[j].domain = lookup.providers[i].domain
          /\ lookup.providers[j].available

\* the run of the fetch task is cut short: the connection is not open any
\* more, the client was stopped, or a command of the fetch task failed
Interrupted ==
    \/ conn # "open"
    \/ stop_called
    \/ fetch.state \in {"failed", "cancelled"}

\* C24: the fetch task runs beside the read loop: once created, and unless
\* the run is cut short, its four steps complete one after the other and
\* init_ready is set; init_ready is set only when all four steps have
\* completed, each having stored its result; and the read loop is never
\* held up by the fetch task (a frame that has arrived can be handled).
C24_FetchCompletes ==
    /\ [][ (~init_ready /\ init_ready')
              => /\ fetch'.state = "finished"
                 /\ fetch.step = 4
                 /\ provider_manifests' # <<>>
                 /\ player_queues' # <<>> ]_vars
    /\ [][ (fetch.state \in {"created", "running"} /\ fetch'.step # fetch.step)
              => fetch'.step = fetch.step + 1 ]_vars
    /\ []((pc.listener = "receiving" /\ inbox # <<>>) => ENABLED ReceiveMessage)
    /\ (fetch.state = "created") ~> (init_ready \/ Interrupted)

\* init_ready is set on an open connection after the read loop has handled a
\* PROVIDERS_UPDATED event besides the four results
C24_Witness ==
    /\ init_ready
    /\ ~Interrupted
    /\ pc.listener = "receiving"
    /\ handled # <<>>
    /\ fetch.step = 4

\* C25: ConnectionClosed raised by receive_message is not reported: the
\* read loop ends, and in the same step every pending operation is
\* cancelled, the fetch task's cancellation is requested, the stop flag is
\* set and the transport's disconnect is called; when that returns,
\* start_listening returns without an exception.
C25_ClosedNotReported ==
    [][ /\ ReceiveClosed
           => /\ listener_exc' = ""
              /\ stop_called'
              /\ \A id \in DOMAIN result_futures' :
                    result_futures'[id].state # "PENDING"
              /\ fetch'.state # "created"
              /\ fetch'.state = "running" => calls'[fetch'.slot].cancel
              /\ pc'.listener = "closing"
        /\ (DisconnectDone("listener") /\ listener_exc = "")
           => /\ pc'.listener = "done"
              /\ listener_exc' = "" ]_vars

\* start_listening has returned without an exception on a closed
\* connection; a caller of the application was woken by the cancellation
\* of its operation and the fetch task ended cancelled
C25_Witness ==
    /\ pc.listener = "done"
    /\ listener_exc = ""
    /\ pc.app = "idle" /\ app_connect = ""
    /\ stop_called
    /\ conn = "closed"
    /\ fetch.state = "cancelled"
    /\ \E c \in Calls :
          /\ calls[c].owner = "app"
          /\ calls[c].pc = "done"
          /\ calls[c].outcome.exc = "CancelledError"
          /\ ~calls[c].cancel

\* the fetch task has ended or is being ended: it is done, its cancellation
\* was requested, or the operation it waits for was cancelled
FetchStopped ==
    \/ fetch.state \notin {"created", "running"}
    \/ /\ fetch.state = "running"
       /\ \/ calls[fetch.slot].cancel
          \/ /\ calls[fetch.slot].id \in DOMAIN result_futures
             /\ result_futures[calls[fetch.slot].id].state = "CANCELLED"

\* the application's disconnect() has returned and start_listening has not
\* torn down
AppDisconnected == stop_called /\ pc.app = "idle" /\ pc.listener = "receiving"

\* when the application's disconnect() returns, the fetch task is stopped
DisconnectStopsFetch ==
    [][ (DisconnectDoneInTurn("app") /\ pc.listener = "receiving")
           => FetchStopped' ]_vars

\* after the application's disconnect() has returned, a step of the fetch
\* task sends no command and leaves the four caches as they are
FetchQuietAfterDisconnect ==
    [][ (AppDisconnected /\ fetch' # fetch)
           => /\ next_id' = next_id
              /\ sent' = sent
              /\ providers' = providers
              /\ provider_manifests' = provider_manifests
              /\ player_queues' = player_queues
              /\ players' = players ]_vars

\* the teardown of start_listening adds no error of its own: what
\* start_listening raises is what ended the read loop, nothing when the
\* loop ended by the stop flag or by ConnectionClosed
TeardownRaisesNothing ==
    [][ /\ (ReceiveClosed /\ pc'.listener = "closing") => listener_exc' = ""
        /\ (ReceiveMessage /\ pc'.listener = "closing")
              => listener_exc' = handle_incoming_message(Head(inbox)).raised ]_vars

\* C26: disconnect() called by the application cancels the fetch task when
\* it is still running: when it returns the task is stopped; afterwards the
\* task sends no command and writes to no cache; and the read loop's
\* teardown raises nothing because of it.
C26_DisconnectCancelsFetch ==
    /\ DisconnectStopsFetch
    /\ FetchQuietAfterDisconnect
    /\ TeardownRaisesNothing

\* the teardown start_listening runs at once on a stopped client: the fetch
\* task it has just created is cancelled before its first step, the
\* transport's disconnect is called, and no frame is handled, no callback
\* handed to the loop
StoppedTeardown ==
    /\ fetch' = [state |-> "cancelled", step |-> 0, slot |-> 0]
    /\ pc'.listener = "closing"
    /\ conn' # "open"
    /\ handled' = handled
    /\ scheduled' = scheduled
    /\ invoked' = invoked
    /\ listener_exc' = ""

\* C27: the stop flag is never cleared once set, a successful connect()
\* included; start_listening() on a stopped client connects again when the
\* connection is closed, never enters the read loop, and cancels its fetch
\* task and disconnects as soon as connect() has returned.
C27_StopIsFinal ==
    [][ /\ stop_called => stop_called'
        /\ (stop_called /\ pc.listener # "receiving") => pc'.listener # "receiving"
        /\ (stop_called /\ StartListening)
              => IF AlreadyConnected THEN StoppedTeardown
                 ELSE pc'.listener = "connecting"
        /\ (stop_called /\ ConnectDone("listener") /\ pc'.listener # "rejecting")
              => /\ server_info' = peer'
                 /\ StoppedTeardown ]_vars

\* start_listening() was called on a stopped client, has connected, and is
\* closing the connection again without any command sent or frame received;
\* its fetch task was cancelled before it ran
C27_Witness ==
    /\ stop_called
    /\ pc.listener = "closing"
    /\ conn = "closing"
    /\ server_info # NoServerInfo
    /\ fetch = [state |-> "cancelled", step |-> 0, slot |-> 0]
    /\ sent = {} /\ answered = {}
    /\ pc.app = "idle"

\* the read loop handles an error result whose code has no entry in the
\* error map and whose message_id is in the table
UnknownErrorHandled ==
    /\ ReceiveMessage
    /\ Head(inbox).type = "error"
    /\ Head(inbox).error_code = UnknownCode
    /\ Head(inbox).message_id \in DOMAIN result_futures

\* C28: an error result with an unregistered code does not settle its
\* operation: the lookup error ends the read loop, the operation, like every
\* other pending one, is cancelled by the teardown, and start_listening
\* raises the lookup error once the transport's disconnect has returned.
C28_UnknownCodeEndsLoop ==
    [][ /\ UnknownErrorHandled
           => LET id == Head(inbox).message_id
              IN  /\ result_futures'[id].outcome = result_futures[id].outcome
                  /\ result_futures'[id].src = result_futures[id].src
                  /\ result_futures[id].state = "PENDING"
                        => result_futures'[id].state = "CANCELLED"
                  /\ \A k \in DOMAIN result_futures' :
                        result_futures'[k].state # "PENDING"
                  /\ stop_called'
                  /\ pc'.listener = "closing"
                  /\ listener_exc' = "KeyError"
        /\ (DisconnectDone("listener") /\ listener_exc = "KeyError")
           => /\ pc'.listener = "done"
              /\ listener_exc' = "KeyError" ]_vars

\* start_listening has raised the lookup error, and the only caller, whose
\* command the server answered, was woken by the cancellation
C28_Witness ==
    /\ pc.listener = "done"
    /\ listener_exc = "KeyError"
    /\ \E c \in Calls :
          /\ calls[c].owner = "app"
          /\ calls[c].pc = "done"
          /\ calls[c].outcome.exc = "CancelledError"
          /\ ~calls[c].cancel
          /\ calls[c].id \in answered
          /\ \A d \in Calls \ {c} : calls[d].pc = "idle"

====
